---------------------------- MODULE Spec2Model ----------------------------
(***************************************************************************)
(* Session-based time estimation of the task edit form                     *)
(* (src/src/components/EnvironmentCard.tsx, component TaskList).           *)
(*                                                                         *)
(* Units.  A JavaScript Date is an instant; instants are counted here in   *)
(* whole hours since 1970-01-01T00:00Z (the code counts milliseconds, and  *)
(* every instant it builds is a whole hour).  Durations (sessionDuration,  *)
(* totalTime) are rational numbers of hours in the code; they are counted  *)
(* here in whole minutes, which is exact for the hour and minute fields    *)
(* the form holds; the rounding of the code's double-precision products is *)
(* not part of the model.  A date string "YYYY-MM-DD" is the one-element   *)
(* sequence <<d>> with d its day number since 1970-01-01, the empty string *)
(* is <<>>.  Other strings are sequences of one-character strings.         *)
(***************************************************************************)
EXTENDS Integers, Sequences, FiniteSets, TLC

VARIABLES editFormData, sessionData, estimationMode, userSettings, timeZone,
          calculation, pc

\* The edit form: the task being edited, whether the deadline-type effect is
\* still to run for the last render, the clock, the call of onUpdateTask the
\* last step made and what the last click on Save saw.
VARIABLES editingTaskId, effectPending, now, onUpdateTaskCall, lastSave

\* The task list: the tasks, the sort settings and the list as rendered.
VARIABLES tasks, sortBy, sortOrder, activeTasks

formVars == <<editingTaskId, effectPending, now, onUpdateTaskCall, lastSave>>

listVars == <<tasks, sortBy, sortOrder, activeTasks>>

\* The environment card: whether it is mounted, its state data, loading and
\* error, the entry of local storage under CACHE_KEY, the runs of fetchEnv
\* in flight, whether the fetch effect is still to run for the last render;
\* and, for the properties, whether the card was mounted over a complete
\* entry younger than the time to live and whether a request has been sent
\* to a service since.
VARIABLES mounted, data, loading, error, cache, fetchRuns, fetchEffectPending,
          mountedOnFreshCache, requestSent

\* The habit tracker: the habit shown, the local date string of today and
\* the value weeklyProgress returned for it.
VARIABLES habit, localToday, weeklyDone

envVars == <<mounted, data, loading, error, cache, fetchRuns,
             fetchEffectPending, mountedOnFreshCache, requestSent>>

habitVars == <<habit, localToday, weeklyDone>>

widgetVars == <<envVars, habitVars>>

vars == <<editFormData, sessionData, estimationMode, userSettings, timeZone,
          calculation, pc, formVars, listVars, widgetVars>>

(***************************************************************************)
(* Bounds of the model.                                                    *)
(***************************************************************************)
MaxSpan == 8

\* The calendar days the date fields range over: 2024-01-01 (a Monday,
\* day 19723 since 1970-01-01) and the MaxSpan days after it.
Days == 19723..(19723 + MaxSpan)

DateStrings == {<<>>} \cup {<<d>> : d \in Days}

\* Time zones of the browser: std is the standard offset from UTC in hours,
\* kind tells whether a daylight-saving transition falls in the window
\* ("spring": the offset grows by one hour at instant at; "fall": it shrinks
\* by one hour at instant at).
DstDay == 19723 + (MaxSpan \div 2)

TimeZones ==
    { [std |-> 0,  kind |-> "none",   at |-> 0],
      [std |-> -5, kind |-> "spring", at |-> DstDay * 24 + 7],
      [std |-> -5, kind |-> "fall",   at |-> DstDay * 24 + 6],
      [std |-> 1,  kind |-> "spring", at |-> DstDay * 24 + 1],
      [std |-> 1,  kind |-> "fall",   at |-> DstDay * 24 + 1] }

WorkDaySets == { {}, {1, 2, 3, 4, 5}, {0, 6}, {3}, 0..6 }

HourStrings == { <<>>, <<"-", "1">>, <<"2">>, <<"7">>, <<"1", "0">> }

MinuteStrings == { <<"0">>, <<"3", "0">> }

DailyHours == { 2, 8 }

(***************************************************************************)
(* Number conversions.                                                     *)
(***************************************************************************)
NaN == [nan |-> TRUE, val |-> 0]

Num(n) == [nan |-> FALSE, val |-> n]

DigitChars == {"0", "1", "2", "3", "4", "5", "6", "7", "8", "9"}

DigitVal(c) ==
    CASE c = "0" -> 0 [] c = "1" -> 1 [] c = "2" -> 2 [] c = "3" -> 3
      [] c = "4" -> 4 [] c = "5" -> 5 [] c = "6" -> 6 [] c = "7" -> 7
      [] c = "8" -> 8 [] c = "9" -> 9

RECURSIVE StripSpaces(_)
StripSpaces(s) ==
    IF s # <<>> /\ Head(s) = " " THEN StripSpaces(Tail(s)) ELSE s

\* The value of the longest prefix of digits of s, acc the value so far.
RECURSIVE DigitsValue(_, _)
DigitsValue(s, acc) ==
    IF s # <<>> /\ Head(s) \in DigitChars
    THEN DigitsValue(Tail(s), acc * 10 + DigitVal(Head(s)))
    ELSE acc

\* parseInt(string): leading white space is skipped, an optional sign is
\* read, then decimal digits up to the first other character; NaN when no
\* digit is found.
parseInt(s) ==
    LET t      == StripSpaces(s)
        signed == t # <<>> /\ Head(t) \in {"-", "+"}
        neg    == t # <<>> /\ Head(t) = "-"
        body   == IF signed THEN Tail(t) ELSE t
    IN  IF body = <<>> \/ Head(body) \notin DigitChars
        THEN NaN
        ELSE Num(IF neg THEN 0 - DigitsValue(body, 0) ELSE DigitsValue(body, 0))

\* x || 0 for a number x: NaN and 0 are falsy.
OrZero(x) == IF x.nan \/ x.val = 0 THEN 0 ELSE x.val

\* Math.ceil(a / b) for an integer a and b > 0.
Ceil(a, b) == 0 - ((0 - a) \div b)

\* n.toFixed(1) of a number of hours given in minutes: the number of tenths
\* of an hour nearest to it.
toFixed1(minutes) == (minutes + 3) \div 6

(***************************************************************************)
(* Date.                                                                   *)
(***************************************************************************)
\* The offset of local time from UTC, in hours, at instant t.
Offset(tz, t) ==
    CASE tz.kind = "none"   -> tz.std
      [] tz.kind = "spring" -> IF t < tz.at THEN tz.std ELSE tz.std + 1
      [] tz.kind = "fall"   -> IF t < tz.at THEN tz.std + 1 ELSE tz.std

\* The instant of local wall-clock time w.  A wall-clock time that occurs
\* twice or not at all around a transition is read with the offset in force
\* before the transition.
LocalToInstant(tz, w) ==
    IF tz.kind = "none" THEN w - tz.std
    ELSE LET before == Offset(tz, tz.at - 1)
             after  == Offset(tz, tz.at)
         IN  IF w - before < tz.at THEN w - before
             ELSE IF w - after >= tz.at THEN w - after
             ELSE w - before

\* new Date("YYYY-MM-DD"): a date-only string is midnight UTC of that day.
NewDate(s) == s[1] * 24

\* Date.prototype.getDay(): the weekday (0 = Sunday) of the local calendar
\* day of the instant; 1970-01-01 was a Thursday.
getDay(tz, t) == (((t + Offset(tz, t)) \div 24) + 4) % 7

\* currentDate.setDate(currentDate.getDate() + 1): the same local
\* wall-clock time on the next local calendar day.
setDateNextDay(tz, t) == LocalToInstant(tz, t + Offset(tz, t) + 24)

\* The local calendar day of an instant, as a day number.
LocalDay(tz, t) == (t + Offset(tz, t)) \div 24

(***************************************************************************)
(* calculateSessionBasedTime, piece by piece.                              *)
(***************************************************************************)
EmptyString == <<>>

\* The neutral plan marked infeasible.
NeutralPlan_Infeasible ==
    [totalTime |-> 0, sessions |-> 0, frequency |-> "", feasible |-> FALSE,
     warning |-> EmptyString]

NeutralPlan ==
    [totalTime |-> 0, sessions |-> 0, frequency |-> "", feasible |-> TRUE,
     warning |-> EmptyString]

\* The invalid-range plan without its warning.
InvalidRangePlan_NoWarning ==
    [totalTime |-> 0, sessions |-> 0, frequency |-> "Invalid date range",
     feasible |-> FALSE, warning |-> EmptyString]

InvalidRangePlan ==
    [totalTime |-> 0, sessions |-> 0, frequency |-> "Invalid date range",
     feasible |-> FALSE, warning |-> <<"Deadline must be after start date">>]

\* The no-work-days plan with the label of the return above it.
NoWorkDaysPlan_WrongLabel ==
    [totalTime |-> 0, sessions |-> 0, frequency |-> "Invalid date range",
     feasible |-> FALSE, warning |-> <<"No work days in the selected range">>]

NoWorkDaysPlan ==
    [totalTime |-> 0, sessions |-> 0, frequency |-> "No work days",
     feasible |-> FALSE, warning |-> <<"No work days in the selected range">>]

\* !editFormData.startDate || !editFormData.deadline ||
\* estimationMode !== 'session'
MissingInput(form, mode) ==
    form.startDate = <<>> \/ form.deadline = <<>> \/ mode # "session"

\* The difference taken the wrong way round.
DaysDiff_Swapped(startDate, endDate) == Ceil(startDate - endDate, 24)

\* The difference counting both ends of the range.
DaysDiff_Inclusive(startDate, endDate) == Ceil(endDate - startDate, 24) + 1

\* Math.ceil((endDate.getTime() - startDate.getTime()) / (1000*3600*24))
DaysDiff(startDate, endDate) == Ceil(endDate - startDate, 24)

\* (parseInt(sessionHours) || 0) + (parseInt(sessionMinutes) || 0) / 60,
\* in minutes.
SessionDuration(sd) ==
    OrZero(parseInt(sd.sessionHours)) * 60 + OrZero(parseInt(sd.sessionMinutes))

\* The while loop: count is workDaysInRange, visited the local calendar days
\* of the instants the loop body ran for, in order.
RECURSIVE WorkDayLoop(_, _, _, _, _)
WorkDayLoop(tz, workDays, currentDate, endDate, acc) ==
    IF currentDate <= endDate
    THEN WorkDayLoop(tz, workDays, setDateNextDay(tz, currentDate), endDate,
            [count   |-> IF getDay(tz, currentDate) \in workDays
                         THEN acc.count + 1 ELSE acc.count,
             visited |-> Append(acc.visited, LocalDay(tz, currentDate))])
    ELSE acc

WorkDaysInRange(tz, workDays, startDate, endDate) ==
    WorkDayLoop(tz, workDays, startDate, endDate,
                [count |-> 0, visited |-> <<>>])

\* The inputs <<sessionDuration in minutes, workDaysInRange, dailyCapacity in
\* hours>> at which sessionDuration * numberOfSessions and
\* totalCapacity * 0.8 are equal as rationals and the product, rounded to a
\* double, lies above the double of totalCapacity * 0.8:
\* (8 + 48/60) * 7 is 61.60000000000001 and 77 * 0.8 is 61.6.  They are all
\* such inputs with whole minutes, a whole dailyCapacity up to 24 hours and
\* up to 14 work days; at no such input do the doubles turn another
\* comparison round.
RoundedPastMargin ==
    { <<528, 7, 11>>, <<528, 14, 11>>, <<1056, 7, 22>>, <<1056, 14, 22>> }

\* totalTime > totalCapacity * 0.8 on the doubles of the code, durations in
\* minutes and dailyCapacity in hours.
ExceedsMargin(sessionDuration, totalTime, workDaysInRange, dailyCapacity) ==
    \/ totalTime * 10 > workDaysInRange * dailyCapacity * 60 * 8
    \/ <<sessionDuration, workDaysInRange, dailyCapacity>> \in RoundedPastMargin

\* The two tests of the feasibility check in the opposite order.
FeasibilityGate_SwappedTests(sessionDuration, totalTime, workDaysInRange, dailyCapacity) ==
    LET totalCapacity == workDaysInRange * dailyCapacity * 60
    IN  IF totalTime * 10 > totalCapacity * 8
        THEN [feasible |-> FALSE,
              warning  |-> <<"Total time (", toFixed1(totalTime),
                             "h) may exceed available capacity">>]
        ELSE IF sessionDuration > dailyCapacity * 60
        THEN [feasible |-> FALSE,
              warning  |-> <<"Session duration (", toFixed1(sessionDuration),
                             "h) exceeds daily capacity (", dailyCapacity, "h)">>]
        ELSE [feasible |-> TRUE, warning |-> EmptyString]

\* The feasibility check without the 0.8 margin on the total capacity.
FeasibilityGate_NoMargin(sessionDuration, totalTime, workDaysInRange, dailyCapacity) ==
    LET totalCapacity == workDaysInRange * dailyCapacity * 60
    IN  IF sessionDuration > dailyCapacity * 60
        THEN [feasible |-> FALSE,
              warning  |-> <<"Session duration (", toFixed1(sessionDuration),
                             "h) exceeds daily capacity (", dailyCapacity, "h)">>]
        ELSE IF totalTime > totalCapacity
        THEN [feasible |-> FALSE,
              warning  |-> <<"Total time (", toFixed1(totalTime),
                             "h) may exceed available capacity">>]
        ELSE [feasible |-> TRUE, warning |-> EmptyString]

\* The feasibility check at the end: durations in minutes, dailyCapacity in
\* hours; totalTime > totalCapacity * 0.8 is compared as the doubles of the
\* code compare.
FeasibilityGate(sessionDuration, totalTime, workDaysInRange, dailyCapacity) ==
    LET totalCapacity == workDaysInRange * dailyCapacity * 60
    IN  IF sessionDuration > dailyCapacity * 60
        THEN [feasible |-> FALSE,
              warning  |-> <<"Session duration (", toFixed1(sessionDuration),
                             "h) exceeds daily capacity (", dailyCapacity, "h)">>]
        ELSE IF ExceedsMargin(sessionDuration, totalTime, workDaysInRange,
                              dailyCapacity)
        THEN [feasible |-> FALSE,
              warning  |-> <<"Total time (", toFixed1(totalTime),
                             "h) may exceed available capacity">>]
        ELSE [feasible |-> TRUE, warning |-> EmptyString]

\* The test with < in place of <=.
NoSessionTime_Strict(sessionDuration) == sessionDuration < 0

\* if (sessionDuration <= 0): nothing to plan yet.
NoSessionTime(sessionDuration) == sessionDuration <= 0

\* const numberOfSessions = workDaysInRange: one session per work day.
NumberOfSessions(workDaysInRange) == workDaysInRange

\* The total without the multiplication by the number of sessions.
TotalTime_NotMultiplied(sessionDuration, numberOfSessions) == sessionDuration

\* const totalTime = sessionDuration * numberOfSessions
TotalTime(sessionDuration, numberOfSessions) ==
    sessionDuration * numberOfSessions

calculateSessionBasedTime(form, sd, mode, settings, tz) ==
    IF MissingInput(form, mode) THEN NeutralPlan
    ELSE
    LET startDate == NewDate(form.startDate)
        endDate   == NewDate(form.deadline)
        daysDiff  == DaysDiff(startDate, endDate)
        sessionDuration == SessionDuration(sd)
        workDaysInRange ==
            WorkDaysInRange(tz, settings.workDays, startDate, endDate).count
        numberOfSessions == NumberOfSessions(workDaysInRange)
        totalTime == TotalTime(sessionDuration, numberOfSessions)
        gate == FeasibilityGate(sessionDuration, totalTime, workDaysInRange,
                                settings.dailyAvailableHours)
    IN  IF daysDiff <= 0 THEN InvalidRangePlan
        ELSE IF NoSessionTime(sessionDuration) THEN NeutralPlan
        ELSE IF workDaysInRange = 0 THEN NoWorkDaysPlan
        ELSE [totalTime |-> totalTime, sessions |-> numberOfSessions,
              frequency |-> "Daily", feasible |-> gate.feasible,
              warning |-> gate.warning]

(***************************************************************************)
(* The parts of the component that a specification leaves at rest.         *)
(***************************************************************************)
\* No call of onUpdateTask.
NoCall == [called |-> FALSE, taskId |-> "null", updates |-> <<>>]

\* No click on Save yet.
NoSave == [clicked |-> FALSE, valid |-> FALSE, conflict |-> FALSE]

\* The edit form closed, as after useState(null) and useState({}).
FormIdle ==
    /\ editingTaskId = "null"
    /\ effectPending = FALSE
    /\ now = 0
    /\ onUpdateTaskCall = NoCall
    /\ lastSave = NoSave

\* An empty task list with the default sort settings.
ListIdle ==
    /\ tasks = <<>>
    /\ sortBy = "deadline"
    /\ sortOrder = "asc"
    /\ activeTasks = <<>>

\* data before any payload: useState<EnvData | null>(null).  The fields say
\* whether the payload has a city, a country and a numeric temperatureC,
\* which source it names, where its coordinates came from and when it was
\* fetched.
NullData ==
    [present |-> FALSE, city |-> FALSE, country |-> FALSE,
     temperatureC |-> FALSE, source |-> "geolocation", coords |-> "device",
     fetchedAt |-> 0]

\* The number of runs of fetchEnv the model keeps in flight at most.
MaxFetchRuns == 2

\* No run of fetchEnv in a slot.
NoRun ==
    [at |-> "idle", source |-> "geolocation", coords |-> "none",
     city |-> FALSE, country |-> FALSE]

\* The environment card before it is mounted: useState(null),
\* useState(true), useState(null), and no entry in local storage.
EnvIdle ==
    /\ mounted = FALSE
    /\ data = NullData
    /\ loading = TRUE
    /\ error = "null"
    /\ cache = NullData
    /\ fetchRuns = [k \in 1..MaxFetchRuns |-> NoRun]
    /\ fetchEffectPending = FALSE
    /\ mountedOnFreshCache = FALSE
    /\ requestSent = FALSE

\* The habit tracker before it renders a habit; weeklyDone is -1 until
\* weeklyProgress has returned.
HabitIdle ==
    /\ habit = [cadence |-> "daily", history |-> {}]
    /\ localToday = <<19723>>
    /\ weeklyDone = -1

WidgetIdle == EnvIdle /\ HabitIdle

(***************************************************************************)
(* The state machine: the inputs the function reads, and its calls.        *)
(***************************************************************************)
Init ==
    /\ editFormData \in [startDate : DateStrings, deadline : DateStrings,
                         estimatedHours : {0}, estimatedMinutes : {0}]
    /\ sessionData \in [sessionHours : HourStrings,
                        sessionMinutes : MinuteStrings]
    /\ estimationMode \in {"total", "session"}
    /\ userSettings \in [workDays : WorkDaySets, dailyAvailableHours : DailyHours]
    /\ timeZone \in TimeZones
    /\ calculation = NeutralPlan
    /\ pc = "idle"
    /\ FormIdle
    /\ ListIdle
    /\ WidgetIdle

\* A call of calculateSessionBasedTime(): it reads the form, the session
\* fields, the mode, the settings and the time zone, and writes nothing.
Calculate ==
    /\ calculation' = calculateSessionBasedTime(editFormData, sessionData,
                          estimationMode, userSettings, timeZone)
    /\ pc' = "returned"
    /\ UNCHANGED <<editFormData, sessionData, estimationMode, userSettings,
                   timeZone>>
    /\ UNCHANGED <<formVars, listVars, widgetVars>>

\* The effect also clearing the minutes of the session fields.
SessionEffect_ClearsMinutes ==
    /\ estimationMode = "session"
    /\ LET c == calculateSessionBasedTime(editFormData, sessionData,
                    estimationMode, userSettings, timeZone)
       IN  /\ calculation' = c
           /\ editFormData' =
                 IF c.totalTime > 0
                 THEN [editFormData EXCEPT !.estimatedHours = c.totalTime \div 60,
                                           !.estimatedMinutes = c.totalTime % 60]
                 ELSE editFormData
    /\ pc' = "returned"
    /\ sessionData' = [sessionData EXCEPT !.sessionMinutes = <<"0">>]
    /\ UNCHANGED <<estimationMode, userSettings, timeZone>>
    /\ UNCHANGED <<formVars, listVars, widgetVars>>

\* The effect that keeps the total-time fields in step with the session
\* fields: in session mode it calls calculateSessionBasedTime() and, when the
\* total is positive, stores Math.floor(totalTime) hours and the rounded
\* remaining minutes in the form.
SessionEffect ==
    /\ estimationMode = "session"
    /\ LET c == calculateSessionBasedTime(editFormData, sessionData,
                    estimationMode, userSettings, timeZone)
       IN  /\ calculation' = c
           /\ editFormData' =
                 IF c.totalTime > 0
                 THEN [editFormData EXCEPT !.estimatedHours = c.totalTime \div 60,
                                           !.estimatedMinutes = c.totalTime % 60]
                 ELSE editFormData
    /\ pc' = "returned"
    /\ UNCHANGED <<sessionData, estimationMode, userSettings, timeZone>>
    /\ UNCHANGED <<formVars, listVars, widgetVars>>

Next == Calculate \/ SessionEffect

Spec == Init /\ [][Next]_vars

(***************************************************************************)
(* What the claims speak about.                                            *)
(***************************************************************************)
\* A call in session mode with both dates present has returned.
Returned ==
    /\ pc = "returned"
    /\ estimationMode = "session"
    /\ editFormData.startDate # <<>>
    /\ editFormData.deadline # <<>>

StartDay == editFormData.startDate[1]

DeadlineDay == editFormData.deadline[1]

CurrentDuration == SessionDuration(sessionData)

\* workDaysInRange as the loop of the call counts it.
CountedWorkDays ==
    WorkDaysInRange(timeZone, userSettings.workDays,
                    NewDate(editFormData.startDate),
                    NewDate(editFormData.deadline)).count

\* The call got as far as the feasibility check: the range is valid, the
\* session duration is positive and the loop counted at least one work day.
ReachedGate ==
    /\ Returned
    /\ DeadlineDay > StartDay
    /\ CurrentDuration > 0
    /\ CountedWorkDays > 0

\* C1: past the early returns (valid range, positive session duration, at
\* least one counted work day) the feasibility gate is applied in order,
\* first match wins: a session longer than dailyAvailableHours gives an
\* infeasible plan whose warning names the session duration and the daily
\* cap; otherwise a total above 0.8 * workDaysInRange * dailyAvailableHours
\* (the plan's totalTime, as the doubles of the code compare it) gives an
\* infeasible plan with the "may exceed available capacity" warning;
\* otherwise the plan is feasible.
C1_FeasibilityGateOrder ==
    ReachedGate =>
        LET cap == userSettings.dailyAvailableHours
            w   == calculation.warning
        IN  IF CurrentDuration > cap * 60
            THEN /\ ~calculation.feasible
                 /\ Len(w) = 5
                 /\ w[1] = "Session duration ("
                 /\ w[2] = toFixed1(CurrentDuration)
                 /\ w[3] = "h) exceeds daily capacity ("
                 /\ w[4] = cap
            ELSE IF ExceedsMargin(CurrentDuration, calculation.totalTime,
                                  CountedWorkDays, cap)
            THEN /\ ~calculation.feasible
                 /\ Len(w) = 3
                 /\ w[1] = "Total time ("
                 /\ w[3] = "h) may exceed available capacity"
            ELSE calculation.feasible

\* A session longer than the daily cap, which also exceeds the 80% margin:
\* the first test decides the warning.
C1_Witness ==
    /\ ReachedGate
    /\ CurrentDuration > userSettings.dailyAvailableHours * 60
    /\ calculation.totalTime * 10
          > 8 * CountedWorkDays * userSettings.dailyAvailableHours * 60
    /\ calculation.warning[1] = "Session duration ("

\* Scenario A of the specification: 2024-01-01 (Monday) to 2024-01-07
\* (Sunday), work days Monday to Friday, sessions of 2 hours, 8 hours a day.
ScenarioA ==
    /\ Returned
    /\ StartDay = 19723
    /\ DeadlineDay = 19723 + 6
    /\ userSettings.workDays = {1, 2, 3, 4, 5}
    /\ userSettings.dailyAvailableHours = 8
    /\ sessionData.sessionHours = <<"2">>
    /\ sessionData.sessionMinutes = <<"0">>

\* C2: for a valid range with workDaysInRange > 0 and a positive session
\* duration the plan has one session per counted work day, frequency
\* "Daily" and totalTime = sessionDuration * sessions; scenario A gives
\* 5 sessions, 10 hours, feasible.
C2_OneSessionPerWorkDay ==
    /\ ReachedGate =>
          /\ calculation.sessions = CountedWorkDays
          /\ calculation.frequency = "Daily"
          /\ calculation.totalTime = CurrentDuration * calculation.sessions
    /\ ScenarioA =>
          /\ calculation.sessions = 5
          /\ calculation.totalTime = 10 * 60
          /\ calculation.feasible

C2_Witness ==
    /\ ScenarioA
    /\ timeZone.std = -5
    /\ calculation.sessions = 5
    /\ calculation.frequency = "Daily"

\* The weekday of a calendar day given by its day number.
WeekdayOf(d) == (d + 4) % 7

\* The calendar days from start to deadline, both included, that are work
\* days.
CalendarWorkDays ==
    { d \in StartDay..DeadlineDay : WeekdayOf(d) \in userSettings.workDays }

\* C3: workDaysInRange is the number of calendar days d with
\* start <= d <= deadline whose weekday is in workDays; the loop runs once
\* for each day of the range, no day twice, and the plan is built from
\* that count.
C3_WorkDaysInRange ==
    (Returned /\ DeadlineDay > StartDay /\ CurrentDuration > 0) =>
        LET loop == WorkDaysInRange(timeZone, userSettings.workDays,
                        NewDate(editFormData.startDate),
                        NewDate(editFormData.deadline))
        IN  /\ loop.count = Cardinality(CalendarWorkDays)
            /\ Len(loop.visited) = DeadlineDay - StartDay + 1
            /\ \A i, j \in 1..Len(loop.visited) :
                  i # j => loop.visited[i] # loop.visited[j]
            /\ IF CalendarWorkDays = {}
               THEN calculation.frequency = "No work days"
               ELSE calculation.sessions = Cardinality(CalendarWorkDays)

\* C4: whenever the deadline is before the start, the plan is infeasible
\* with frequency "Invalid date range", whatever the session duration and
\* the work days.
C4_InvalidRange ==
    (Returned /\ DeadlineDay < StartDay) =>
        /\ ~calculation.feasible
        /\ calculation.frequency = "Invalid date range"

\* A reversed range with no session time and no work days is still reported
\* as an invalid range.
C4_Witness ==
    /\ Returned
    /\ DeadlineDay < StartDay
    /\ CurrentDuration <= 0
    /\ userSettings.workDays = {}
    /\ calculation.frequency = "Invalid date range"

C6_Original ==
    (Returned /\ CurrentDuration <= 0) =>
        /\ calculation.feasible
        /\ calculation.sessions = 0
        /\ calculation.totalTime = 0

\* C6, amended: every input with a session duration <= 0 and a valid range
\* (deadline after start) gives the neutral plan, whatever the work days.
C6_NoSessionTime ==
    (Returned /\ CurrentDuration <= 0 /\ DeadlineDay > StartDay) =>
        /\ calculation.feasible
        /\ calculation.sessions = 0
        /\ calculation.totalTime = 0

\* A duration of exactly zero over a range that does contain work days.
C6_Witness ==
    /\ Returned
    /\ CurrentDuration = 0
    /\ DeadlineDay > StartDay
    /\ CountedWorkDays > 0
    /\ calculation.feasible
    /\ calculation.sessions = 0

\* The session fields a user can compare the current ones with.
SessionInputs ==
    [sessionHours : HourStrings, sessionMinutes : MinuteStrings]

\* The plan of the current form, settings and time zone for session fields sd.
PlanFor(sd) ==
    calculateSessionBasedTime(editFormData, sd, estimationMode, userSettings,
                              timeZone)

\* totalTime never decreases when the session duration grows, range and
\* capacity held fixed.
TotalTimeMonotone ==
    Returned =>
        \A sd \in SessionInputs :
            SessionDuration(sd) >= CurrentDuration =>
                PlanFor(sd).totalTime >= calculation.totalTime

\* C7 as stated: totalTime never decreases, and feasible flips from true to
\* false exactly once, where the session duration crosses
\* dailyAvailableHours.
C7_Original ==
    /\ TotalTimeMonotone
    /\ ReachedGate =>
          (calculation.feasible
              <=> CurrentDuration <= userSettings.dailyAvailableHours * 60)

\* C7, amended: totalTime never decreases; feasible never comes back from
\* false to true as the session duration grows; and in a valid range with at
\* least one counted work day the flip is at 0.8 * dailyAvailableHours: the
\* plan is feasible for every session duration below it and infeasible for
\* every one above it.
C7_Monotone ==
    /\ TotalTimeMonotone
    /\ Returned =>
          \A sd \in SessionInputs :
              (SessionDuration(sd) >= CurrentDuration /\ ~calculation.feasible)
                  => ~PlanFor(sd).feasible
    /\ ReachedGate =>
          /\ CurrentDuration * 10 < 8 * userSettings.dailyAvailableHours * 60
                => calculation.feasible
          /\ CurrentDuration * 10 > 8 * userSettings.dailyAvailableHours * 60
                => ~calculation.feasible

\* A session shorter than the daily cap and longer than 80% of it.
C7_Witness ==
    /\ ReachedGate
    /\ CurrentDuration <= userSettings.dailyAvailableHours * 60
    /\ CurrentDuration * 10 > 8 * userSettings.dailyAvailableHours * 60
    /\ ~calculation.feasible

\* C8: in every plan a call returns, warning is the empty string exactly
\* when feasible is true.
C8_WarningIffInfeasible ==
    pc = "returned" => (calculation.feasible <=> Len(calculation.warning) = 0)

C8_Witness ==
    /\ ReachedGate
    /\ ~calculation.feasible
    /\ Len(calculation.warning) = 3

\* C9: with the start date or the deadline missing the call returns the
\* neutral plan: no time, no sessions, empty frequency, feasible, no
\* warning.
C9_MissingDates ==
    (/\ pc = "returned"
     /\ (editFormData.startDate = <<>> \/ editFormData.deadline = <<>>)) =>
        /\ calculation.totalTime = 0
        /\ calculation.sessions = 0
        /\ calculation.frequency = ""
        /\ calculation.feasible
        /\ Len(calculation.warning) = 0

\* Only the deadline is missing, in session mode, with no work days.
C9_Witness ==
    /\ pc = "returned"
    /\ estimationMode = "session"
    /\ editFormData.startDate # <<>>
    /\ editFormData.deadline = <<>>
    /\ userSettings.workDays = {}
    /\ calculation.feasible

RECURSIVE StripTrailingSpaces(_)
StripTrailingSpaces(s) ==
    IF s # <<>> /\ s[Len(s)] = " "
    THEN StripTrailingSpaces(SubSeq(s, 1, Len(s) - 1))
    ELSE s

\* String.prototype.trim()
trim(s) == StripTrailingSpaces(StripSpaces(s))

CustomOption == <<"C", "u", "s", "t", "o", "m", ".", ".", ".">>

PresetCategories ==
    { <<"A", "c", "a", "d", "e", "m", "i", "c", "s">>,
      <<"O", "r", "g", "a", "n", "i", "z", "a", "t", "i", "o", "n">>,
      <<"W", "o", "r", "k">>,
      <<"P", "e", "r", "s", "o", "n", "a", "l">>,
      <<"H", "e", "a", "l", "t", "h">>,
      <<"L", "e", "a", "r", "n", "i", "n", "g">>,
      <<"F", "i", "n", "a", "n", "c", "e">>,
      <<"H", "o", "m", "e">>,
      <<"R", "o", "u", "t", "i", "n", "e">> }

\* useState<EditFormData>({}) and setEditFormData({})
EmptyForm ==
    [title |-> <<>>, deadline |-> <<>>, importance |-> "undefined",
     estimatedHours |-> 0, estimatedMinutes |-> 0, category |-> <<>>,
     customCategory |-> <<>>, impact |-> "", deadlineType |-> "undefined",
     isOneTimeTask |-> FALSE, startDate |-> <<>>]

\* new Date().toISOString().split('T')[0]: the UTC calendar day of the clock.
Today(clock) == <<clock \div 24>>

\* The total without the minutes.
getEffectiveTotalTime_HoursOnly(form) == form.estimatedHours * 60

\* (estimatedHours || 0) + (estimatedMinutes || 0) / 60, in minutes.
getEffectiveTotalTime(form) == form.estimatedHours * 60 + form.estimatedMinutes

\* a < b for two date strings "YYYY-MM-DD".
DateStringLess(a, b) == a[1] < b[1]

\* !deadline || deadline.trim() === '': a date field holds '' or a date, and
\* a date has no white space to trim.
DateIsBlank(s) == s = <<>>

\* The validity test without the one-sitting rules.
isEditFormValid_NoOneSittingRule(form, today, settings) ==
    LET totalHours == getEffectiveTotalTime(form)
    IN  /\ trim(form.title) # <<>>
        /\ Len(trim(form.title)) <= 100
        /\ totalHours > 0
        /\ totalHours <= 100 * 60
        /\ form.impact # ""
        /\ ~(form.deadline # <<>> /\ DateStringLess(form.deadline, today))
        /\ ~(/\ form.category = CustomOption
             /\ (\/ trim(form.customCategory) = <<>>
                 \/ Len(trim(form.customCategory)) > 50))

isEditFormValid(form, today, settings) ==
    LET totalHours == getEffectiveTotalTime(form)
    IN  /\ trim(form.title) # <<>>
        /\ Len(trim(form.title)) <= 100
        /\ totalHours > 0
        /\ totalHours <= 100 * 60
        /\ form.impact # ""
        /\ ~(form.deadline # <<>> /\ DateStringLess(form.deadline, today))
        /\ ~(/\ form.category = CustomOption
             /\ (\/ trim(form.customCategory) = <<>>
                 \/ Len(trim(form.customCategory)) > 50))
        /\ form.isOneTimeTask =>
              /\ ~DateIsBlank(form.deadline)
              /\ totalHours <= settings.dailyAvailableHours * 60

\* The weekday of a calendar day given by its day number.
WeekdayOfDay(d) == (d + 4) % 7

NoConflict == [hasConflict |-> FALSE, reason |-> "", recommendedFrequency |-> ""]

\* calculateSessionDistribution of ../utils/scheduling: the work days among
\* the calendar days from startDate to deadline are counted, and the task
\* conflicts with its deadline when there is none or when estimatedHours
\* spread evenly over them needs more than dailyAvailableHours a day.
calculateSessionDistribution(task, settings) ==
    LET workDaysInRange ==
            Cardinality({ d \in task.startDate[1]..task.deadline[1] :
                              WeekdayOfDay(d) \in settings.workDays })
    IN  IF workDaysInRange = 0
        THEN [hasConflict |-> TRUE,
              reason |-> "No work days between the start date and the deadline",
              recommendedFrequency |-> "daily"]
        ELSE IF task.estimatedHours
                  > workDaysInRange * settings.dailyAvailableHours * 60
        THEN [hasConflict |-> TRUE,
              reason |-> "Not enough hours on the work days before the deadline",
              recommendedFrequency |-> "daily"]
        ELSE NoConflict

\* The memo without the test of deadlineType.
deadlineConflict_DeadlineOnly(form, settings) ==
    IF form.deadline = <<>>
    THEN NoConflict
    ELSE calculateSessionDistribution(
             [deadline |-> form.deadline,
              estimatedHours |-> getEffectiveTotalTime(form),
              deadlineType |-> form.deadlineType,
              startDate |-> form.startDate], settings)

\* const deadlineConflict = useMemo(...)
deadlineConflict(form, settings) ==
    IF form.deadline = <<>> \/ form.deadlineType = "none"
    THEN NoConflict
    ELSE calculateSessionDistribution(
             [deadline |-> form.deadline,
              estimatedHours |-> getEffectiveTotalTime(form),
              deadlineType |-> form.deadlineType,
              startDate |-> form.startDate], settings)

\* Math.ceil((deadline.getTime() - now.getTime()) / (1000*60*60*24))
DaysUntilDeadline(deadline, clock) == Ceil(NewDate(deadline) - clock, 24)

\* The test with the importance flag read the wrong way round.
isLowPriorityUrgent_Important(form, clock) ==
    IF form.deadline = <<>> THEN FALSE
    ELSE DaysUntilDeadline(form.deadline, clock) <= 3 /\ form.importance = "true"

\* const isLowPriorityUrgent = React.useMemo(...), for the clock of the
\* render that evaluates it.
isLowPriorityUrgent(form, clock) ==
    IF form.deadline = <<>> THEN FALSE
    ELSE DaysUntilDeadline(form.deadline, clock) <= 3 /\ form.importance = "false"

(***************************************************************************)
(* The inputs of the edit form specification.                              *)
(***************************************************************************)
\* The clock: Tuesday 2024-01-02 at 00:00 and at 13:00 UTC.
FormClocks == { (19723 + 1) * 24, (19723 + 1) * 24 + 13 }

\* Deadlines a task is stored with: none, or Friday 2024-01-05, three days
\* after the clock's day.
TaskDeadlines == { <<>>, <<19723 + 4>> }

\* Deadlines typed into the form: cleared, yesterday, in three days (Friday)
\* and in four days (Saturday).
DeadlineInputs == { <<>>, <<19723>>, <<19723 + 4>>, <<19723 + 5>> }

\* Start dates typed into the form: cleared, or Friday 2024-01-05.
StartDateInputs == { <<>>, <<19723 + 4>> }

TitleInputs == { <<" ">>, <<"T">> }

CategoryInputs == { <<"W", "o", "r", "k">>, CustomOption }

CustomCategoryInputs == { <<>>, <<"M">> }

EstimatedHourInputs ==
    { <<>>, <<"2">>, <<"4", "0">>, <<"1", "0", "1">>, <<"-", "1">> }

EstimatedMinuteInputs == { <<"0">>, <<"3", "0">>, <<"6", "0">> }

FormSettings ==
    [workDays : { {}, {1, 2, 3, 4, 5} }, dailyAvailableHours : DailyHours]

\* The tasks of the list that can be opened in the form: task "a" is
\* important, task "b" is not.
TaskRecords ==
    { [id |-> i, title |-> <<"T">>, deadline |-> d,
       importance |-> IF i = "a" THEN "true" ELSE "false",
       estimatedHours |-> 120, category |-> <<"W", "o", "r", "k">>,
       impact |-> "", deadlineType |-> dt, isOneTimeTask |-> FALSE,
       startDate |-> <<>>] :
          i \in {"a", "b"}, d \in TaskDeadlines,
          dt \in {"undefined", "soft", "none"} }

(***************************************************************************)
(* The handlers of the edit form.                                          *)
(***************************************************************************)
\* What no handler of the form touches.
FormFrame ==
    UNCHANGED <<sessionData, estimationMode, userSettings, timeZone,
                calculation, pc, now, listVars, widgetVars>>

\* A step that is not a click on Save calls nothing.
NoOutput ==
    /\ onUpdateTaskCall' = NoCall
    /\ lastSave' = NoSave

\* A user event reaches a handler of the committed render, after the effects
\* of that render have run.
UserEvent == ~effectPending

\* The deadline-type effect runs after a render in which editFormData.deadline
\* or editingTaskId changed.
EffectDue ==
    effectPending' = (\/ editingTaskId' # editingTaskId
                      \/ editFormData'.deadline # editFormData.deadline)

startEditing(task) ==
    /\ UserEvent
    /\ task.id # editingTaskId
    /\ editingTaskId' = task.id
    /\ editFormData' =
          [title |-> task.title,
           deadline |-> task.deadline,
           importance |-> task.importance,
           estimatedHours |-> task.estimatedHours \div 60,
           estimatedMinutes |-> task.estimatedHours % 60,
           category |-> IF task.category = CustomOption THEN <<>>
                        ELSE task.category,
           customCategory |->
               IF task.category # <<>> /\ task.category \notin PresetCategories
               THEN task.category ELSE <<>>,
           impact |-> IF task.impact # "" THEN task.impact
                      ELSE IF task.importance = "true" THEN "high" ELSE "low",
           deadlineType |->
               IF task.deadlineType # "undefined" THEN task.deadlineType
               ELSE IF task.deadline # <<>> THEN "hard" ELSE "none",
           isOneTimeTask |-> task.isOneTimeTask,
           startDate |-> IF task.startDate # <<>> THEN task.startDate
                         ELSE Today(now)]
    /\ EffectDue
    /\ NoOutput
    /\ FormFrame

\* The inputs of the form are rendered, and can be used, while a task is
\* being edited.
FormShown ==
    /\ UserEvent
    /\ editingTaskId # "null"

\* setEditFormData({ ...editFormData, field: value })
SetField(form) ==
    /\ editFormData' = form
    /\ UNCHANGED editingTaskId
    /\ EffectDue
    /\ NoOutput
    /\ FormFrame

ChangeTitle(t) ==
    /\ FormShown
    /\ SetField([editFormData EXCEPT !.title = t])

ChangeCategory(c) ==
    /\ FormShown
    /\ SetField([editFormData EXCEPT !.category = c, !.customCategory = <<>>])

\* The input is rendered when the category is 'Custom...'.
ChangeCustomCategory(c) ==
    /\ FormShown
    /\ editFormData.category = CustomOption
    /\ SetField([editFormData EXCEPT !.customCategory = c])

ChangeDeadline(d) ==
    /\ FormShown
    /\ SetField([editFormData EXCEPT !.deadline = d])

\* The input is rendered unless the task is a one-sitting task.
ChangeStartDate(d) ==
    /\ FormShown
    /\ ~editFormData.isOneTimeTask
    /\ SetField([editFormData EXCEPT
                    !.startDate = IF d # <<>> THEN d ELSE Today(now)])

ChangeOneTimeTask(b) ==
    /\ FormShown
    /\ SetField([editFormData EXCEPT !.isOneTimeTask = b])

ChangeEstimatedHours(str) ==
    /\ FormShown
    /\ LET value == OrZero(parseInt(str))
       IN  SetField(IF value >= 0
                    THEN [editFormData EXCEPT !.estimatedHours = value]
                    ELSE editFormData)

ChangeEstimatedMinutes(str) ==
    /\ FormShown
    /\ LET value == OrZero(parseInt(str))
       IN  SetField(IF value >= 0 /\ value <= 59
                    THEN [editFormData EXCEPT !.estimatedMinutes = value]
                    ELSE editFormData)

ChangeImpact(i) ==
    /\ FormShown
    /\ SetField([editFormData EXCEPT !.impact = i])

\* The effect that never resets deadlineType to 'none'.
DeadlineTypeEffect_NeverNone ==
    /\ effectPending
    /\ editFormData' =
          IF /\ editingTaskId # "null"
             /\ editFormData.deadline # <<>>
             /\ editFormData.deadlineType = "none"
          THEN [editFormData EXCEPT !.deadlineType = "hard"]
          ELSE editFormData
    /\ effectPending' = FALSE
    /\ UNCHANGED editingTaskId
    /\ NoOutput
    /\ FormFrame

\* The effect on [editFormData.deadline, editingTaskId]: while a task is
\* edited, a deadline turns deadlineType 'none' into 'hard' and an empty
\* deadline sets deadlineType to 'none'.
DeadlineTypeEffect ==
    /\ effectPending
    /\ editFormData' =
          IF editingTaskId = "null" THEN editFormData
          ELSE IF ~DateIsBlank(editFormData.deadline)
          THEN IF editFormData.deadlineType = "none"
               THEN [editFormData EXCEPT !.deadlineType = "hard"]
               ELSE editFormData
          ELSE [editFormData EXCEPT !.deadlineType = "none"]
    /\ effectPending' = FALSE
    /\ UNCHANGED editingTaskId
    /\ NoOutput
    /\ FormFrame

\* The updates saveEdit passes to onUpdateTask; estimatedHours is the total
\* in minutes.
SavedUpdates(form, today) ==
    [title |-> form.title,
     estimatedHours |-> getEffectiveTotalTime(form),
     estimatedMinutes |-> form.estimatedMinutes,
     category |-> IF form.category = CustomOption THEN form.customCategory
                  ELSE form.category,
     customCategory |-> form.customCategory,
     deadline |-> IF form.deadlineType = "none" THEN <<>> ELSE form.deadline,
     deadlineType |-> IF form.deadline # <<>> THEN form.deadlineType ELSE "none",
     importance |-> form.impact = "high",
     impact |-> form.impact,
     isOneTimeTask |-> form.isOneTimeTask,
     startDate |-> IF form.startDate # <<>> THEN form.startDate ELSE today]

\* saveEdit refusing a form whose deadline conflicts.
saveEdit_BlockedByConflict ==
    LET valid    == isEditFormValid(editFormData, Today(now), userSettings)
        conflict == deadlineConflict(editFormData, userSettings).hasConflict
    IN  /\ UserEvent
        /\ editingTaskId # "null"
        /\ lastSave' = [clicked |-> TRUE, valid |-> valid, conflict |-> conflict]
        /\ IF valid /\ ~conflict
           THEN /\ onUpdateTaskCall' =
                     [called |-> TRUE, taskId |-> editingTaskId,
                      updates |-> SavedUpdates(editFormData, Today(now))]
                /\ editingTaskId' = "null"
                /\ editFormData' = EmptyForm
           ELSE /\ onUpdateTaskCall' = NoCall
                /\ UNCHANGED <<editingTaskId, editFormData>>
        /\ EffectDue
        /\ FormFrame

\* A click on Save: saveEdit with the validity and the conflict verdict of
\* the render the click came from.
saveEdit ==
    LET valid    == isEditFormValid(editFormData, Today(now), userSettings)
        conflict == deadlineConflict(editFormData, userSettings).hasConflict
    IN  /\ UserEvent
        /\ editingTaskId # "null"
        /\ lastSave' = [clicked |-> TRUE, valid |-> valid, conflict |-> conflict]
        /\ IF valid
           THEN /\ onUpdateTaskCall' =
                     [called |-> TRUE, taskId |-> editingTaskId,
                      updates |-> SavedUpdates(editFormData, Today(now))]
                /\ editingTaskId' = "null"
                /\ editFormData' = EmptyForm
           ELSE /\ onUpdateTaskCall' = NoCall
                /\ UNCHANGED <<editingTaskId, editFormData>>
        /\ EffectDue
        /\ FormFrame

\* cancelEdit leaving the form data in place.
cancelEdit_KeepsForm ==
    /\ UserEvent
    /\ editingTaskId # "null"
    /\ editingTaskId' = "null"
    /\ UNCHANGED editFormData
    /\ EffectDue
    /\ NoOutput
    /\ FormFrame

cancelEdit ==
    /\ UserEvent
    /\ editingTaskId # "null"
    /\ editingTaskId' = "null"
    /\ editFormData' = EmptyForm
    /\ EffectDue
    /\ NoOutput
    /\ FormFrame

InitForm ==
    /\ editFormData = EmptyForm
    /\ sessionData = [sessionHours |-> <<"2">>, sessionMinutes |-> <<"0">>]
    /\ estimationMode = "total"
    /\ userSettings \in FormSettings
    /\ timeZone = [std |-> 0, kind |-> "none", at |-> 0]
    /\ calculation = NeutralPlan
    /\ pc = "idle"
    /\ editingTaskId = "null"
    /\ effectPending = FALSE
    /\ now \in FormClocks
    /\ onUpdateTaskCall = NoCall
    /\ lastSave = NoSave
    /\ ListIdle
    /\ WidgetIdle

NextForm ==
    \/ \E task \in TaskRecords : startEditing(task)
    \/ \E t \in TitleInputs : ChangeTitle(t)
    \/ \E c \in CategoryInputs : ChangeCategory(c)
    \/ \E c \in CustomCategoryInputs : ChangeCustomCategory(c)
    \/ \E d \in DeadlineInputs : ChangeDeadline(d)
    \/ \E d \in StartDateInputs : ChangeStartDate(d)
    \/ \E b \in BOOLEAN : ChangeOneTimeTask(b)
    \/ \E str \in EstimatedHourInputs : ChangeEstimatedHours(str)
    \/ \E str \in EstimatedMinuteInputs : ChangeEstimatedMinutes(str)
    \/ \E i \in {"high", "low"} : ChangeImpact(i)
    \/ DeadlineTypeEffect
    \/ saveEdit
    \/ cancelEdit

SpecForm == InitForm /\ [][NextForm]_vars

(***************************************************************************)
(* Properties of the edit form, checked under SpecForm.                    *)
(***************************************************************************)
Editing == editingTaskId # "null"

\* The total of the form in minutes, from its two fields.
FormTotalMinutes ==
    editFormData.estimatedHours * 60 + editFormData.estimatedMinutes

\* The work days among the calendar days from the form's start date to its
\* deadline, both included.
FormWorkDays ==
    { d \in editFormData.startDate[1]..editFormData.deadline[1] :
          WeekdayOf(d) \in userSettings.workDays }

\* The conflict check is consulted: a task is edited, it has a deadline and
\* its deadlineType is not 'none'.
ConflictChecked ==
    /\ Editing
    /\ editFormData.deadline # <<>>
    /\ editFormData.deadlineType # "none"

\* The total does not fit on the work days of the range.
OverCapacity ==
    \/ FormWorkDays = {}
    \/ FormTotalMinutes
           > Cardinality(FormWorkDays) * userSettings.dailyAvailableHours * 60

\* C11: when the conflict check is consulted, it reports hasConflict = TRUE
\* with a reason and recommendedFrequency "daily" if the range from startDate
\* to deadline holds no work day or if the estimated time spread evenly over
\* its work days exceeds dailyAvailableHours a day, and it reports no
\* conflict otherwise.
C11_ConflictVerdict ==
    ConflictChecked =>
        LET verdict == deadlineConflict(editFormData, userSettings)
        IN  IF OverCapacity
            THEN /\ verdict.hasConflict
                 /\ verdict.reason # ""
                 /\ verdict.recommendedFrequency = "daily"
            ELSE ~verdict.hasConflict

\* Scenario D: 40 hours, one work day before the deadline, 8 hours a day.
C11_Witness ==
    /\ ConflictChecked
    /\ ~effectPending
    /\ FormTotalMinutes = 40 * 60
    /\ Cardinality(FormWorkDays) = 1
    /\ userSettings.dailyAvailableHours = 8
    /\ deadlineConflict(editFormData, userSettings).hasConflict
    /\ deadlineConflict(editFormData, userSettings).recommendedFrequency = "daily"

\* C12: without a deadline, or with deadlineType 'none', the conflict check
\* reports no conflict, no reason and no recommended frequency, whatever the
\* estimated time and the capacity.
C12_NoOpWithoutDeadline ==
    (editFormData.deadline = <<>> \/ editFormData.deadlineType = "none") =>
        deadlineConflict(editFormData, userSettings) = NoConflict

\* A form with a deadline and deadlineType 'none' whose range holds no work
\* day: the check is skipped although the distribution would conflict.
C12_Witness ==
    /\ Editing
    /\ editFormData.deadline # <<>>
    /\ editFormData.deadlineType = "none"
    /\ FormWorkDays = {}
    /\ deadlineConflict(editFormData, userSettings) = NoConflict

\* C13: a click on Save calls onUpdateTask exactly when the form is valid,
\* with the updates built from the form alone, whether or not the deadline
\* conflicts.
C13_ConflictIsAdvisory ==
    [][lastSave'.clicked =>
          /\ onUpdateTaskCall'.called
                 = isEditFormValid(editFormData, Today(now), userSettings)
          /\ onUpdateTaskCall'.called =>
                 /\ onUpdateTaskCall'.taskId = editingTaskId
                 /\ onUpdateTaskCall'.updates
                        = SavedUpdates(editFormData, Today(now))
          /\ lastSave'.conflict
                 = deadlineConflict(editFormData, userSettings).hasConflict]_vars

\* A valid form whose deadline conflicts has been saved.
C13_Witness ==
    /\ lastSave.clicked
    /\ lastSave.valid
    /\ lastSave.conflict
    /\ onUpdateTaskCall.called
    /\ onUpdateTaskCall.updates.deadline # <<>>

\* C15: the warning is raised exactly when the form has a deadline, the
\* deadline is at most three days (72 hours) after the clock, and the
\* importance flag of the task is false.
C15_LowPriorityUrgent ==
    isLowPriorityUrgent(editFormData, now)
        = (/\ editFormData.deadline # <<>>
           /\ NewDate(editFormData.deadline) - now <= 3 * 24
           /\ editFormData.importance = "false")

\* The warning is raised for an unimportant task due in three days.
C15_Witness ==
    /\ Editing
    /\ editFormData.importance = "false"
    /\ editFormData.deadline = <<now \div 24 + 3>>
    /\ isLowPriorityUrgent(editFormData, now)

\* C16: every update saveEdit passes to onUpdateTask with isOneTimeTask set
\* has a deadline and an estimated time of at most dailyAvailableHours.
C16_OneSittingPrecondition ==
    (onUpdateTaskCall.called /\ onUpdateTaskCall.updates.isOneTimeTask) =>
        /\ onUpdateTaskCall.updates.deadline # <<>>
        /\ onUpdateTaskCall.updates.estimatedHours
               <= userSettings.dailyAvailableHours * 60

\* A one-sitting task that takes the whole day has been saved.
C16_Witness ==
    /\ onUpdateTaskCall.called
    /\ onUpdateTaskCall.updates.isOneTimeTask
    /\ onUpdateTaskCall.updates.deadline # <<>>
    /\ onUpdateTaskCall.updates.estimatedHours
           = userSettings.dailyAvailableHours * 60

\* C17: an update saved with an empty deadline has deadlineType 'none', and
\* once the deadline-type effect has run for a task being edited, an empty
\* deadline field comes with deadlineType 'none'.
C17_NoneWithoutDeadline ==
    /\ (onUpdateTaskCall.called /\ onUpdateTaskCall.updates.deadline = <<>>)
           => onUpdateTaskCall.updates.deadlineType = "none"
    /\ (Editing /\ ~effectPending /\ editFormData.deadline = <<>>)
           => editFormData.deadlineType = "none"

\* A task without a deadline has been saved with deadlineType 'none'.
C17_Witness ==
    /\ onUpdateTaskCall.called
    /\ onUpdateTaskCall.updates.deadline = <<>>
    /\ onUpdateTaskCall.updates.deadlineType = "none"

(***************************************************************************)
(* More properties of calculateSessionBasedTime.                           *)
(***************************************************************************)
\* C18: with both dates present the call answers "Invalid date range",
\* infeasible, exactly when the deadline is not on a later calendar day than
\* the start; a deadline on the day of the start is rejected.
C18_SameDayRejected ==
    Returned =>
        /\ (calculation.frequency = "Invalid date range")
               = (DeadlineDay - StartDay <= 0)
        /\ DeadlineDay = StartDay => ~calculation.feasible

\* Start and deadline on the same work day, with a session time: rejected
\* where a one-day range would have been planned.
C18_Witness ==
    /\ Returned
    /\ DeadlineDay = StartDay
    /\ WeekdayOf(StartDay) \in userSettings.workDays
    /\ CurrentDuration > 0
    /\ calculation.frequency = "Invalid date range"
    /\ ~calculation.feasible

(***************************************************************************)
(* The same calls on the 80% margin: sessions of 8 h 48 min with 11 hours  *)
(* a day, over ranges of one to MaxSpan + 1 days starting on 2024-01-01.   *)
(***************************************************************************)
MarginSessions ==
    [sessionHours : { <<"2">>, <<"8">> },
     sessionMinutes : { <<"0">>, <<"4", "8">> }]

MarginSettings ==
    [workDays : { {1, 2, 3, 4, 5}, 0..6 }, dailyAvailableHours : {11}]

InitMargin ==
    /\ editFormData \in [startDate : {<<19723>>, <<19723 + 1>>},
                         deadline : {<<d>> : d \in Days},
                         estimatedHours : {0}, estimatedMinutes : {0}]
    /\ sessionData \in MarginSessions
    /\ estimationMode = "session"
    /\ userSettings \in MarginSettings
    /\ timeZone = [std |-> 0, kind |-> "none", at |-> 0]
    /\ calculation = NeutralPlan
    /\ pc = "idle"
    /\ FormIdle
    /\ ListIdle
    /\ WidgetIdle

SpecMargin == InitMargin /\ [][Next]_vars

\* C20: past the early returns (valid range, positive session duration, at
\* least one counted work day) the plan is feasible if and only if the
\* session duration is at most 0.8 * dailyAvailableHours, whatever the
\* number of work days in the range.
C20_PerSessionBound ==
    ReachedGate =>
        (calculation.feasible
            = (CurrentDuration * 10 <= 8 * userSettings.dailyAvailableHours * 60))

(***************************************************************************)
(* The task list: the tasks the component is given, the sort settings and  *)
(* the list of pending tasks it renders.  A task of the list has the       *)
(* fields id, deadline, startDate (date strings), createdAt (an instant)   *)
(* and status.                                                             *)
(***************************************************************************)
\* The number of tasks the list is given at most.
MaxTasks == 3

\* new Date('9999-12-31') and new Date('1970-01-01') as date strings.
FarFuture == <<2932896>>

Epoch == <<0>>

\* getUrgencyColor with < in place of <=.
getUrgencyColor_StrictBounds(deadline, clock) ==
    LET daysUntilDeadline == DaysUntilDeadline(deadline, clock)
    IN  IF daysUntilDeadline < 1 THEN "text-red-600"
        ELSE IF daysUntilDeadline < 3 THEN "text-orange-600"
        ELSE IF daysUntilDeadline < 7 THEN "text-yellow-600"
        ELSE "text-green-600"

\* getUrgencyColor(deadline), for the clock of the render that calls it.
getUrgencyColor(deadline, clock) ==
    LET daysUntilDeadline == DaysUntilDeadline(deadline, clock)
    IN  IF daysUntilDeadline <= 1 THEN "text-red-600"
        ELSE IF daysUntilDeadline <= 3 THEN "text-orange-600"
        ELSE IF daysUntilDeadline <= 7 THEN "text-yellow-600"
        ELSE "text-green-600"

\* aValue and bValue of the comparator, as instants.
SortValue(task, by, order) ==
    IF by = "deadline"
    THEN IF task.deadline # <<>> THEN NewDate(task.deadline)
         ELSE IF order = "asc" THEN NewDate(FarFuture) ELSE NewDate(Epoch)
    ELSE IF by = "startDate"
    THEN IF task.startDate # <<>> THEN NewDate(task.startDate)
         ELSE task.createdAt
    ELSE task.createdAt

\* The comparator of sortTasks: negative when a goes before b.
CompareTasks(a, b, by, order) ==
    IF by \notin {"deadline", "startDate", "createdAt"} THEN 0
    ELSE LET aValue == SortValue(a, by, order)
             bValue == SortValue(b, by, order)
             comparison == IF aValue < bValue THEN -1
                           ELSE IF aValue > bValue THEN 1 ELSE 0
         IN  IF order = "asc" THEN comparison ELSE -comparison

\* Array.prototype.sort is stable: a task goes behind the tasks before it
\* that the comparator does not put after it.
RECURSIVE InsertSorted(_, _, _, _)
InsertSorted(task, sorted, by, order) ==
    IF sorted = <<>> THEN <<task>>
    ELSE IF CompareTasks(task, sorted[Len(sorted)], by, order) >= 0
    THEN Append(sorted, task)
    ELSE Append(InsertSorted(task, SubSeq(sorted, 1, Len(sorted) - 1), by, order),
                sorted[Len(sorted)])

RECURSIVE sortTasks(_, _, _)
sortTasks(tasksToSort, by, order) ==
    IF tasksToSort = <<>> THEN <<>>
    ELSE InsertSorted(tasksToSort[Len(tasksToSort)],
                      sortTasks(SubSeq(tasksToSort, 1, Len(tasksToSort) - 1),
                                by, order),
                      by, order)

IsPending(task) == task.status = "pending"

\* const activeTasks = sortTasks(tasks.filter(task => task.status === 'pending'))
ActiveTasks(ts, by, order) == sortTasks(SelectSeq(ts, IsPending), by, order)

\* The clock of the list: Tuesday 2024-01-02 at 00:00 and at 13:00 UTC.
ListClocks == { (19723 + 1) * 24, (19723 + 1) * 24 + 13 }

\* The tasks the list can be given: without a deadline, and due in 1, 3, 3,
\* 5 and 30 days; one of them is completed.
TaskPool ==
    { [id |-> "a", deadline |-> <<>>, startDate |-> <<19723 + 2>>,
       createdAt |-> 19723 * 24 + 9, status |-> "pending"],
      [id |-> "b", deadline |-> <<19723 + 2>>, startDate |-> <<>>,
       createdAt |-> 19723 * 24 + 8, status |-> "pending"],
      [id |-> "c", deadline |-> <<19723 + 4>>, startDate |-> <<19723 + 1>>,
       createdAt |-> 19723 * 24 + 7, status |-> "pending"],
      [id |-> "d", deadline |-> <<19723 + 4>>, startDate |-> <<19723 + 1>>,
       createdAt |-> 19723 * 24 + 6, status |-> "pending"],
      [id |-> "e", deadline |-> <<19723 + 6>>, startDate |-> <<>>,
       createdAt |-> 19723 * 24 + 5, status |-> "pending"],
      [id |-> "f", deadline |-> <<19723 + 31>>, startDate |-> <<19723 + 3>>,
       createdAt |-> 19723 * 24 + 4, status |-> "pending"],
      [id |-> "g", deadline |-> <<19723 + 2>>, startDate |-> <<>>,
       createdAt |-> 19723 * 24 + 3, status |-> "completed"] }

\* What no step of the list touches.
ListFrame ==
    UNCHANGED <<editFormData, sessionData, estimationMode, userSettings,
                timeZone, calculation, pc, formVars, widgetVars>>

\* The parent renders the component with one more task.
ReceiveTask(task) ==
    /\ Len(tasks) < MaxTasks
    /\ \A k \in 1..Len(tasks) : tasks[k].id # task.id
    /\ tasks' = Append(tasks, task)
    /\ activeTasks' = ActiveTasks(tasks', sortBy, sortOrder)
    /\ UNCHANGED <<sortBy, sortOrder>>
    /\ ListFrame

\* onChange of the sort select, shown when the list is not empty.
setSortBy(by) ==
    /\ tasks # <<>>
    /\ sortBy' = by
    /\ activeTasks' = ActiveTasks(tasks, sortBy', sortOrder)
    /\ UNCHANGED <<tasks, sortOrder>>
    /\ ListFrame

\* onClick of the sort-order button:
\* setSortOrder(sortOrder === 'asc' ? 'desc' : 'asc')
toggleSortOrder ==
    /\ tasks # <<>>
    /\ sortOrder' = IF sortOrder = "asc" THEN "desc" ELSE "asc"
    /\ activeTasks' = ActiveTasks(tasks, sortBy, sortOrder')
    /\ UNCHANGED <<tasks, sortBy>>
    /\ ListFrame

InitList ==
    /\ editFormData = EmptyForm
    /\ sessionData = [sessionHours |-> <<"2">>, sessionMinutes |-> <<"0">>]
    /\ estimationMode = "total"
    /\ userSettings = [workDays |-> {1, 2, 3, 4, 5}, dailyAvailableHours |-> 8]
    /\ timeZone = [std |-> 0, kind |-> "none", at |-> 0]
    /\ calculation = NeutralPlan
    /\ pc = "idle"
    /\ editingTaskId = "null"
    /\ effectPending = FALSE
    /\ now \in ListClocks
    /\ onUpdateTaskCall = NoCall
    /\ lastSave = NoSave
    /\ ListIdle
    /\ WidgetIdle

NextList ==
    \/ \E task \in TaskPool : ReceiveTask(task)
    \/ \E by \in {"deadline", "startDate", "createdAt"} : setSortBy(by)
    \/ toggleSortOrder

SpecList == InitList /\ [][NextList]_vars

(***************************************************************************)
(* Properties of the task list, checked under SpecList.                    *)
(***************************************************************************)
\* The tiers critical, high, medium and low, as the classes that show them,
\* ranked by urgency.
UrgencyRank(colour) ==
    CASE colour = "text-red-600"    -> 3
      [] colour = "text-orange-600" -> 2
      [] colour = "text-yellow-600" -> 1
      [] colour = "text-green-600"  -> 0

\* The tier of a deadline that lies hours after the clock: ceil(hours / 24)
\* is at most k exactly when hours is at most 24 * k.
TierOfHours(hours) ==
    IF hours <= 1 * 24 THEN "text-red-600"
    ELSE IF hours <= 3 * 24 THEN "text-orange-600"
    ELSE IF hours <= 7 * 24 THEN "text-yellow-600"
    ELSE "text-green-600"

\* Deadlines from two days before the clock's day to 31 days after it.
UrgencyDeadlines == { <<d>> : d \in (19723 - 1)..(19723 + 32) }

\* C14: the tier of a deadline is critical when
\* ceil((deadline - now) / 1 day) <= 1, high when <= 3, medium when <= 7 and
\* low otherwise, for the deadlines of the rendered tasks and for every
\* deadline of UrgencyDeadlines; a deadline that is closer, or a clock that
\* is later, never gives a less urgent tier; now + 1 day is critical,
\* now + 5 days medium and now + 30 days low.
C14_UrgencyTiers ==
    /\ \A k \in 1..Len(activeTasks) :
          activeTasks[k].deadline # <<>> =>
              getUrgencyColor(activeTasks[k].deadline, now)
                  = TierOfHours(NewDate(activeTasks[k].deadline) - now)
    /\ \A d \in UrgencyDeadlines :
          /\ getUrgencyColor(d, now) = TierOfHours(NewDate(d) - now)
          /\ NewDate(d) = now + 1 * 24 => getUrgencyColor(d, now) = "text-red-600"
          /\ NewDate(d) = now + 5 * 24 => getUrgencyColor(d, now) = "text-yellow-600"
          /\ NewDate(d) = now + 30 * 24 => getUrgencyColor(d, now) = "text-green-600"
          /\ \A e \in UrgencyDeadlines :
                e[1] <= d[1] =>
                    UrgencyRank(getUrgencyColor(e, now))
                        >= UrgencyRank(getUrgencyColor(d, now))
          /\ \A later \in ListClocks :
                later >= now =>
                    UrgencyRank(getUrgencyColor(d, later))
                        >= UrgencyRank(getUrgencyColor(d, now))

\* The list shows tasks due in exactly 1, 5 and 30 days as critical, medium
\* and low.
C14_Witness ==
    /\ \E k \in 1..Len(activeTasks) :
          /\ activeTasks[k].deadline # <<>>
          /\ NewDate(activeTasks[k].deadline) = now + 1 * 24
          /\ getUrgencyColor(activeTasks[k].deadline, now) = "text-red-600"
    /\ \E k \in 1..Len(activeTasks) :
          /\ activeTasks[k].deadline # <<>>
          /\ NewDate(activeTasks[k].deadline) = now + 5 * 24
          /\ getUrgencyColor(activeTasks[k].deadline, now) = "text-yellow-600"
    /\ \E k \in 1..Len(activeTasks) :
          /\ activeTasks[k].deadline # <<>>
          /\ NewDate(activeTasks[k].deadline) = now + 30 * 24
          /\ getUrgencyColor(activeTasks[k].deadline, now) = "text-green-600"

\* C19: in the list sorted by deadline, the tasks without a deadline are at
\* the end when the order is ascending and at the beginning when it is
\* descending.
C19_NoDeadlinePlacement ==
    sortBy = "deadline" =>
        \A j, k \in 1..Len(activeTasks) :
            (j < k) =>
                IF sortOrder = "asc"
                THEN activeTasks[j].deadline = <<>>
                         => activeTasks[k].deadline = <<>>
                ELSE activeTasks[k].deadline = <<>>
                         => activeTasks[j].deadline = <<>>

(***************************************************************************)
(* More properties of the edit form, checked under SpecForm.               *)
(***************************************************************************)
\* C21: the warning follows the impact selected in the form of the task
\* being edited: with "High impact" selected it is not shown, and with
\* "Low impact" selected and a deadline at most three days after the clock
\* it is shown.
C21_WarningFollowsImpact ==
    Editing =>
        /\ editFormData.impact = "high"
               => ~isLowPriorityUrgent(editFormData, now)
        /\ (/\ editFormData.impact = "low"
            /\ editFormData.deadline # <<>>
            /\ NewDate(editFormData.deadline) - now <= 3 * 24)
               => isLowPriorityUrgent(editFormData, now)

(***************************************************************************)
(* The messages of the edit form, and the form over a wider range of       *)
(* field values than SpecForm types in: titles of 100 and 101 characters,  *)
(* custom categories of 50 and 51 characters, totals around 100 hours.     *)
(***************************************************************************)
\* The message of a rule, or nothing: if (test) errors.push(message)
ErrorIf(test, message) == IF test THEN <<message>> ELSE <<>>

\* The messages without the one for a missing impact.
getValidationErrors_NoImpactMessage(form, today, settings) ==
    LET totalHours == form.estimatedHours * 60 + form.estimatedMinutes
    IN  ErrorIf(trim(form.title) = <<>>, "Task title is required")
        \o ErrorIf(form.title # <<>> /\ Len(trim(form.title)) > 100,
                   "Task title must be 100 characters or less")
        \o ErrorIf(totalHours <= 0, "Estimated time must be greater than 0")
        \o ErrorIf(totalHours > 100 * 60,
                   "Estimated time seems unreasonably high (over 100 hours)")
        \o ErrorIf(form.deadline # <<>> /\ DateStringLess(form.deadline, today),
                   "Deadline cannot be in the past")
        \o ErrorIf(/\ form.category = CustomOption
                   /\ (\/ trim(form.customCategory) = <<>>
                       \/ Len(trim(form.customCategory)) > 50),
                   "Custom category must be between 1-50 characters")
        \o ErrorIf(form.isOneTimeTask /\ DateIsBlank(form.deadline),
                   "One-sitting tasks require a deadline")
        \o ErrorIf(/\ form.isOneTimeTask
                   /\ totalHours > settings.dailyAvailableHours * 60,
                   "One-sitting task exceeds your daily available hours")

\* getValidationErrors(): the messages in the order they are pushed; the
\* last one stands for the message that quotes the two numbers of hours.
getValidationErrors(form, today, settings) ==
    LET totalHours == form.estimatedHours * 60 + form.estimatedMinutes
    IN  ErrorIf(trim(form.title) = <<>>, "Task title is required")
        \o ErrorIf(form.title # <<>> /\ Len(trim(form.title)) > 100,
                   "Task title must be 100 characters or less")
        \o ErrorIf(totalHours <= 0, "Estimated time must be greater than 0")
        \o ErrorIf(totalHours > 100 * 60,
                   "Estimated time seems unreasonably high (over 100 hours)")
        \o ErrorIf(form.impact = "", "Please select task importance")
        \o ErrorIf(form.deadline # <<>> /\ DateStringLess(form.deadline, today),
                   "Deadline cannot be in the past")
        \o ErrorIf(/\ form.category = CustomOption
                   /\ (\/ trim(form.customCategory) = <<>>
                       \/ Len(trim(form.customCategory)) > 50),
                   "Custom category must be between 1-50 characters")
        \o ErrorIf(form.isOneTimeTask /\ DateIsBlank(form.deadline),
                   "One-sitting tasks require a deadline")
        \o ErrorIf(/\ form.isOneTimeTask
                   /\ totalHours > settings.dailyAvailableHours * 60,
                   "One-sitting task exceeds your daily available hours")

\* A text of n letters.
Letters(n) == [k \in 1..n |-> "x"]

\* The forms of a task being edited, after the deadline-type effect.
ValidationForms ==
    { [title |-> t, deadline |-> d, importance |-> "false",
       estimatedHours |-> h, estimatedMinutes |-> m, category |-> c,
       customCategory |-> cc, impact |-> i,
       deadlineType |-> IF d = <<>> THEN "none" ELSE "hard",
       isOneTimeTask |-> o, startDate |-> <<19723 + 1>>] :
          t \in { <<>>, <<" ">>, <<"T">>, Letters(100), Letters(101) },
          d \in { <<>>, <<19723>>, <<19723 + 1>>, <<19723 + 4>> },
          h \in { 0, 2, 100 }, m \in { 0, 30 },
          c \in { <<"W", "o", "r", "k">>, CustomOption },
          cc \in { <<>>, <<" ">>, Letters(50), Letters(51) },
          i \in { "", "high", "low" }, o \in BOOLEAN }

InitValidation ==
    /\ editFormData \in ValidationForms
    /\ sessionData = [sessionHours |-> <<"2">>, sessionMinutes |-> <<"0">>]
    /\ estimationMode = "total"
    /\ userSettings \in [workDays : { {1, 2, 3, 4, 5} },
                         dailyAvailableHours : DailyHours]
    /\ timeZone = [std |-> 0, kind |-> "none", at |-> 0]
    /\ calculation = NeutralPlan
    /\ pc = "idle"
    /\ editingTaskId = "a"
    /\ effectPending = FALSE
    /\ now = (19723 + 1) * 24 + 13
    /\ onUpdateTaskCall = NoCall
    /\ lastSave = NoSave
    /\ ListIdle
    /\ WidgetIdle

NextValidation ==
    \/ saveEdit
    \/ cancelEdit
    \/ DeadlineTypeEffect

SpecValidation == InitValidation /\ [][NextValidation]_vars

\* The messages the form of the state shows.
ShownErrors == getValidationErrors(editFormData, Today(now), userSettings)

\* C22: for the form of a task being edited, getValidationErrors returns no
\* message exactly when isEditFormValid is true.
C22_ErrorsIffInvalid ==
    Editing =>
        ((Len(ShownErrors) = 0)
            = isEditFormValid(editFormData, Today(now), userSettings))

\* An invalid form that breaks the rules on the title length, the total time
\* and the custom category at once shows a message for each.
C22_Witness ==
    /\ Editing
    /\ ~isEditFormValid(editFormData, Today(now), userSettings)
    /\ Len(editFormData.title) = 101
    /\ editFormData.estimatedHours * 60 + editFormData.estimatedMinutes > 100 * 60
    /\ Len(editFormData.customCategory) = 51
    /\ Len(ShownErrors) >= 3

\* C23: onUpdateTask is called only by a click on Save with a task being
\* edited and a valid form, and then editingTaskId is null and editFormData
\* is empty; saveEdit on an invalid form calls nothing and leaves
\* editingTaskId and editFormData as they are; cancelEdit calls nothing and
\* clears editingTaskId and editFormData.
C23_SaveAndCancelFrame ==
    [][/\ onUpdateTaskCall'.called =>
              /\ lastSave'.clicked
              /\ editingTaskId # "null"
              /\ isEditFormValid(editFormData, Today(now), userSettings)
              /\ onUpdateTaskCall'.taskId = editingTaskId
              /\ editingTaskId' = "null"
              /\ editFormData' = EmptyForm
       /\ (/\ lastSave'.clicked
           /\ ~isEditFormValid(editFormData, Today(now), userSettings)) =>
              /\ ~onUpdateTaskCall'.called
              /\ UNCHANGED <<editingTaskId, editFormData>>
       /\ cancelEdit =>
              /\ ~onUpdateTaskCall'.called
              /\ editingTaskId' = "null"
              /\ editFormData' = EmptyForm]_vars

\* A click on Save has closed the form of task "b" with its updates passed
\* on.
C23_Witness ==
    /\ onUpdateTaskCall.called
    /\ onUpdateTaskCall.taskId = "b"
    /\ editingTaskId = "null"
    /\ editFormData = EmptyForm
    /\ effectPending

(***************************************************************************)
(* The environment card (component EnvironmentCard): the cache effect, the *)
(* fetch effect and the runs of fetchEnv.  Times are in milliseconds.  A   *)
(* payload is told by what the effects read of it: whether it has a city,  *)
(* a country and a numeric temperatureC, its source and fetchedAt; coords  *)
(* records which service its latitude and longitude were read from.  A run *)
(* of fetchEnv is told by the await it is suspended at and by its locals.  *)
(***************************************************************************)
WEATHER_TTL_MS == 15 * 60 * 1000

\* Date.now() when the card is mounted.
MountTime == 1000 * 60 * 1000

\* Date.now() when a run builds its payload.
FetchTime == MountTime + 60 * 1000

\* !data || !data.city || !data.country ||
\* typeof data.temperatureC !== 'number'
needsRefetch(d) ==
    ~d.present \/ ~d.city \/ ~d.country \/ ~d.temperatureC

\* cached.fetchedAt && Date.now() - cached.fetchedAt < WEATHER_TTL_MS, for
\* the entry of local storage if there is one.
CacheIsFresh(entry, clock) ==
    /\ entry.present
    /\ entry.fetchedAt # 0
    /\ clock - entry.fetchedAt < WEATHER_TTL_MS

\* The entries local storage can hold when the card is mounted: none, or a
\* payload an earlier run has written, 14 minutes 59.999 seconds, 15 minutes
\* or 20 minutes old.
CacheEntries ==
    { NullData }
    \cup { [present |-> TRUE, city |-> c, country |-> n, temperatureC |-> t,
            source |-> s,
            coords |-> IF s = "ipapi" THEN "ipapi" ELSE "device",
            fetchedAt |-> f] :
              c \in BOOLEAN, n \in BOOLEAN, t \in BOOLEAN,
              s \in {"geolocation", "ipapi"},
              f \in { MountTime - WEATHER_TTL_MS + 1,
                      MountTime - WEATHER_TTL_MS,
                      MountTime - 20 * 60 * 1000 } }

InFlight(run) == run.at # "idle"

RunsInFlight == { k \in 1..MaxFetchRuns : InFlight(fetchRuns[k]) }

\* The slot a new run takes.
FreeSlot(runs) ==
    CHOOSE k \in 1..MaxFetchRuns :
        /\ ~InFlight(runs[k])
        /\ \A j \in 1..(k - 1) : InFlight(runs[j])

\* What no step of the card touches.
EnvFrame ==
    UNCHANGED <<editFormData, sessionData, estimationMode, userSettings,
                timeZone, calculation, pc, formVars, listVars, habitVars>>

\* fetchEnv() up to its first await: setLoading(true), setError(null), the
\* locals declared, getPosition called.
fetchEnvStarts ==
    /\ \E k \in 1..MaxFetchRuns : ~InFlight(fetchRuns[k])
    /\ fetchRuns' = [fetchRuns EXCEPT ![FreeSlot(fetchRuns)] =
                        [NoRun EXCEPT !.at = "position"]]
    /\ loading' = TRUE
    /\ error' = "null"

\* The first commit: the cache effect reads local storage and, for a fresh
\* entry, sets data and loading; the fetch effect of the same render then
\* runs with the data of that render, which is null.
Mount ==
    /\ ~mounted
    /\ mounted' = TRUE
    /\ data' = IF CacheIsFresh(cache, MountTime) THEN cache ELSE data
    /\ fetchEffectPending' = CacheIsFresh(cache, MountTime)
    /\ IF needsRefetch(data)
       THEN fetchEnvStarts
       ELSE /\ loading' = IF CacheIsFresh(cache, MountTime) THEN FALSE
                          ELSE loading
            /\ UNCHANGED <<fetchRuns, error>>
    /\ mountedOnFreshCache' =
          (CacheIsFresh(cache, MountTime) /\ ~needsRefetch(cache))
    /\ UNCHANGED <<cache, requestSent>>
    /\ EnvFrame

\* The fetch effect after a render in which data has changed.
FetchEffect ==
    /\ mounted
    /\ fetchEffectPending
    /\ fetchEffectPending' = FALSE
    /\ IF needsRefetch(data)
       THEN fetchEnvStarts
       ELSE UNCHANGED <<fetchRuns, loading, error>>
    /\ UNCHANGED <<mounted, data, cache, mountedOnFreshCache, requestSent>>
    /\ EnvFrame

\* A run is resumed by the answer it awaits, once the effects of the last
\* render have run.
Awaiting(k, point) ==
    /\ mounted
    /\ ~fetchEffectPending
    /\ fetchRuns[k].at = point

\* What a step of a run that neither ends it nor sends its first request
\* leaves alone.
RunFrame ==
    /\ UNCHANGED <<mounted, data, loading, error, cache, fetchEffectPending,
                   mountedOnFreshCache>>
    /\ EnvFrame

\* Where a run goes on once a lookup has answered: to the next lookup while
\* a name is missing, else to the weather request.
AfterLookup(run, next) ==
    IF ~run.city \/ ~run.country THEN [run EXCEPT !.at = next]
    ELSE [run EXCEPT !.at = "weather"]

\* getPosition rejects and the source stays 'geolocation'.
getPositionRejects_KeepsSource(k) ==
    /\ Awaiting(k, "position")
    /\ fetchRuns' = [fetchRuns EXCEPT ![k] = [@ EXCEPT !.at = "ipapi"]]
    /\ requestSent' = TRUE
    /\ RunFrame

\* getPosition resolves: lat and lon are the device's; no name is known, so
\* the reverse geocoding request is sent.
getPositionResolves(k) ==
    /\ Awaiting(k, "position")
    /\ fetchRuns' = [fetchRuns EXCEPT ![k] =
                        AfterLookup([@ EXCEPT !.coords = "device"], "reverse")]
    /\ requestSent' = TRUE
    /\ RunFrame

\* getPosition rejects: source = 'ipapi' and the request to ipapi.co is
\* sent.
getPositionRejects(k) ==
    /\ Awaiting(k, "position")
    /\ fetchRuns' = [fetchRuns EXCEPT ![k] =
                        [@ EXCEPT !.at = "ipapi", !.source = "ipapi"]]
    /\ requestSent' = TRUE
    /\ RunFrame

\* ipapi.co answers ok, with or without a city and a country: lat and lon
\* are numbers read from the answer (NaN when it has none, which is not
\* null), so the guards on them pass.
ipapiResponds(k, city, country) ==
    /\ Awaiting(k, "ipapi")
    /\ fetchRuns' = [fetchRuns EXCEPT ![k] =
                        AfterLookup([@ EXCEPT !.coords = "ipapi",
                                              !.city = city,
                                              !.country = country], "reverse")]
    /\ UNCHANGED requestSent
    /\ RunFrame

\* The request to ipapi.co for coordinates, or the weather request, is
\* rejected, or ipapi.co answers not ok: catch (e) {
\* setError('Unable to fetch location/weather'); setLoading(false) }
fetchEnvThrows(k) ==
    /\ Awaiting(k, "ipapi") \/ Awaiting(k, "weather")
    /\ error' = "Unable to fetch location/weather"
    /\ loading' = FALSE
    /\ fetchRuns' = [fetchRuns EXCEPT ![k] = NoRun]
    /\ UNCHANGED <<mounted, data, cache, fetchEffectPending,
                   mountedOnFreshCache, requestSent>>
    /\ EnvFrame

\* The reverse geocoding answers; city and country tell what its first
\* result names (nothing when the request fails or has no result).
reverseResponds(k, city, country) ==
    /\ Awaiting(k, "reverse")
    /\ fetchRuns' = [fetchRuns EXCEPT ![k] =
                        AfterLookup([@ EXCEPT !.city = city \/ @,
                                              !.country = country \/ @],
                                    "nominatim")]
    /\ UNCHANGED requestSent
    /\ RunFrame

\* Nominatim answers: city = city || ..., country = country || addr.country
nominatimResponds(k, city, country) ==
    /\ Awaiting(k, "nominatim")
    /\ fetchRuns' = [fetchRuns EXCEPT ![k] =
                        AfterLookup([@ EXCEPT !.city = @ \/ city,
                                              !.country = @ \/ country],
                                    "ipnames")]
    /\ UNCHANGED requestSent
    /\ RunFrame

\* ipapi.co answers the request for names; the weather request follows
\* whatever it has named.
ipnamesResponds(k, city, country) ==
    /\ Awaiting(k, "ipnames")
    /\ fetchRuns' = [fetchRuns EXCEPT ![k] =
                        [@ EXCEPT !.city = @ \/ city,
                                  !.country = @ \/ country,
                                  !.at = "weather"]]
    /\ UNCHANGED requestSent
    /\ RunFrame

\* The payload of a run whose weather answer has, or has not, a numeric
\* temperature.
Payload(run, numeric) ==
    [present |-> TRUE, city |-> run.city, country |-> run.country,
     temperatureC |-> numeric, source |-> run.source, coords |-> run.coords,
     fetchedAt |-> FetchTime]

\* The weather service answers: setData(payload),
\* localStorage.setItem(CACHE_KEY, JSON.stringify(payload)),
\* setLoading(false); data is a new object, so the fetch effect is due.
weatherResponds(k, numeric) ==
    /\ Awaiting(k, "weather")
    /\ data' = Payload(fetchRuns[k], numeric)
    /\ cache' = Payload(fetchRuns[k], numeric)
    /\ loading' = FALSE
    /\ fetchRuns' = [fetchRuns EXCEPT ![k] = NoRun]
    /\ fetchEffectPending' = TRUE
    /\ UNCHANGED <<mounted, error, mountedOnFreshCache, requestSent>>
    /\ EnvFrame

InitEnv ==
    /\ editFormData = EmptyForm
    /\ sessionData = [sessionHours |-> <<"2">>, sessionMinutes |-> <<"0">>]
    /\ estimationMode = "total"
    /\ userSettings = [workDays |-> {1, 2, 3, 4, 5}, dailyAvailableHours |-> 8]
    /\ timeZone = [std |-> 0, kind |-> "none", at |-> 0]
    /\ calculation = NeutralPlan
    /\ pc = "idle"
    /\ FormIdle
    /\ ListIdle
    /\ mounted = FALSE
    /\ data = NullData
    /\ loading = TRUE
    /\ error = "null"
    /\ cache \in CacheEntries
    /\ fetchRuns = [k \in 1..MaxFetchRuns |-> NoRun]
    /\ fetchEffectPending = FALSE
    /\ mountedOnFreshCache = FALSE
    /\ requestSent = FALSE
    /\ HabitIdle

RunStep(k) ==
    \/ getPositionResolves(k)
    \/ getPositionRejects(k)
    \/ \E city \in BOOLEAN, country \in BOOLEAN : ipapiResponds(k, city, country)
    \/ fetchEnvThrows(k)
    \/ \E city \in BOOLEAN, country \in BOOLEAN : reverseResponds(k, city, country)
    \/ \E city \in BOOLEAN, country \in BOOLEAN : nominatimResponds(k, city, country)
    \/ \E city \in BOOLEAN, country \in BOOLEAN : ipnamesResponds(k, city, country)
    \/ \E numeric \in BOOLEAN : weatherResponds(k, numeric)

NextEnv ==
    \/ Mount
    \/ FetchEffect
    \/ \E k \in 1..MaxFetchRuns : RunStep(k)

SpecEnv == InitEnv /\ [][NextEnv]_vars

\* Every request is answered or fails in the end, and React runs the effects
\* of every render.
SpecEnvFair == SpecEnv /\ WF_vars(NextEnv)

(***************************************************************************)
(* Properties of the environment card, checked under SpecEnv and           *)
(* SpecEnvFair.                                                            *)
(***************************************************************************)
\* C24: a step starts a run of fetchEnv only when the component holds no
\* data or data without a city, a country or a numeric temperature; and a
\* card mounted while local storage holds a complete entry younger than 15
\* minutes has no run in flight that has sent a request to a service.
C24_FetchOnlyWhenNeeded ==
    [][/\ Cardinality(RunsInFlight') > Cardinality(RunsInFlight)
            => needsRefetch(data)
       /\ mountedOnFreshCache' => ~requestSent']_vars

\* C25: from some point on no run of fetchEnv is in flight and no fetch
\* effect is due.
C25_EventuallyQuiet ==
    <>[](RunsInFlight = {} /\ ~fetchEffectPending)

\* C26: at most one run of fetchEnv is in flight.
C26_SingleRun == Cardinality(RunsInFlight) <= 1

\* C27: a run asks ipapi.co for coordinates only from the rejection of
\* getPosition, before it has any coordinates; and the payload a run holds
\* or has stored, in data and in local storage, has source 'ipapi' exactly
\* when its coordinates were read from the answer of ipapi.co, and source
\* 'geolocation' otherwise.
C27_SourceFollowsCoordinates ==
    /\ [](/\ \A k \in RunsInFlight :
               /\ fetchRuns[k].source \in {"geolocation", "ipapi"}
               /\ fetchRuns[k].coords # "none" =>
                      (fetchRuns[k].source = "ipapi")
                          = (fetchRuns[k].coords = "ipapi")
           /\ \A stored \in {data, cache} :
                  stored.present =>
                      /\ stored.source \in {"geolocation", "ipapi"}
                      /\ (stored.source = "ipapi") = (stored.coords = "ipapi"))
    /\ [][\A k \in 1..MaxFetchRuns :
              (fetchRuns'[k].at = "ipapi" /\ fetchRuns[k].at # "ipapi")
                  => /\ fetchRuns[k].at = "position"
                     /\ fetchRuns[k].coords = "none"
                     /\ fetchRuns'[k].coords = "none"]_vars

\* A run whose getPosition was rejected has stored a payload with the
\* coordinates of ipapi.co.
C27_Witness ==
    /\ data.present
    /\ data.fetchedAt = FetchTime
    /\ data.source = "ipapi"
    /\ data.coords = "ipapi"
    /\ cache = data

(***************************************************************************)
(* The habit tracker (src/src/components/HabitTracker.tsx): weeklyProgress *)
(* of a habit, for the local date string of today and the time zone of the *)
(* browser.  The history of a habit is the set of the date strings of the  *)
(* days it was done.                                                       *)
(***************************************************************************)
\* The number of entries of a history at most.
MaxHistory == 2

\* d.setDate(d.getDate() + days): the same local wall-clock time, days local
\* calendar days later (earlier when days is negative).
setDateBy(tz, t, days) == LocalToInstant(tz, t + Offset(tz, t) + 24 * days)

\* weeklyProgress(habit): now = new Date(today), startOfWeek = now moved back
\* by now.getDay() days, endOfWeek = startOfWeek moved on by 6 days, and the
\* entries d of the history with startOfWeek <= new Date(d) <= endOfWeek
\* counted.
weeklyProgress(h, todayString, tz) ==
    IF h.cadence # "weekly" THEN 0
    ELSE LET clock       == NewDate(todayString)
             startOfWeek == setDateBy(tz, clock, 0 - getDay(tz, clock))
             endOfWeek   == setDateBy(tz, startOfWeek, 6)
         IN  Cardinality({ d \in h.history :
                             /\ NewDate(d) >= startOfWeek
                             /\ NewDate(d) <= endOfWeek })

\* The days today ranges over: Sunday 2023-12-31 to Saturday 2024-01-06.
HabitTodays == { <<d>> : d \in (19723 - 1)..(19723 + 5) }

\* The days a history can hold: from two days before that week to two days
\* after it.
HistoryDays == { <<d>> : d \in (19723 - 3)..(19723 + 7) }

Habits ==
    [cadence : {"daily", "weekly"},
     history : { h \in SUBSET HistoryDays : Cardinality(h) <= MaxHistory }]

\* What no step of the habit tracker touches.
HabitFrame ==
    UNCHANGED <<editFormData, sessionData, estimationMode, userSettings,
                timeZone, calculation, pc, formVars, listVars, envVars>>

\* The render of a habit's card: const weeklyDone = weeklyProgress(habit)
RenderHabit ==
    /\ weeklyDone' = weeklyProgress(habit, localToday, timeZone)
    /\ UNCHANGED <<habit, localToday>>
    /\ HabitFrame

InitHabit ==
    /\ editFormData = EmptyForm
    /\ sessionData = [sessionHours |-> <<"2">>, sessionMinutes |-> <<"0">>]
    /\ estimationMode = "total"
    /\ userSettings = [workDays |-> {1, 2, 3, 4, 5}, dailyAvailableHours |-> 8]
    /\ timeZone \in TimeZones
    /\ calculation = NeutralPlan
    /\ pc = "idle"
    /\ FormIdle
    /\ ListIdle
    /\ EnvIdle
    /\ habit \in Habits
    /\ localToday \in HabitTodays
    /\ weeklyDone = -1

NextHabit == RenderHabit

SpecHabit == InitHabit /\ [][NextHabit]_vars

(***************************************************************************)
(* Properties of the habit tracker, checked under SpecHabit.               *)
(***************************************************************************)
\* The Sunday of the Sunday-to-Saturday week of a day.
SundayOf(d) == d - WeekdayOf(d)

\* C28: the weekly progress rendered for a weekly habit is the number of
\* entries of its history from the Sunday to the Saturday of the week of
\* today, both included, and for a daily habit it is 0.
C28_WeeklyProgress ==
    weeklyDone # -1 =>
        weeklyDone =
            IF habit.cadence = "weekly"
            THEN Cardinality({ d \in habit.history :
                                 /\ d[1] >= SundayOf(localToday[1])
                                 /\ d[1] <= SundayOf(localToday[1]) + 6 })
            ELSE 0

=============================================================================
